---- MODULE Spec2Model ----
(***************************************************************************)
(* AES Integer Counter Mode engine of libsrtp on top of wolfSSL            *)
(* (crypto/cipher/aes_icm_wssl.c).                                         *)
(*                                                                         *)
(* The state is the cipher handle (srtp_cipher_t), the engine state        *)
(* (srtp_aes_icm_ctx_t: key, key_size, offset, counter, ctx), the wolfSSL  *)
(* Aes object behind ctx, the caller's destination buffer and length, and  *)
(* the record of the last call with its returned status.  Bytes are        *)
(* naturals below 256, a v128_t is a sequence of 16 bytes (v8[k] is        *)
(* element k + 1).                                                         *)
(***************************************************************************)
EXTENDS Integers, Sequences, FiniteSets, TLC

(* ---------------------------------------------------------------------- *)
(* Bounds of the model                                                     *)
(* ---------------------------------------------------------------------- *)
MaxIndex == 1       \* packet indices 0..MaxIndex used to build nonces
MaxEncrypts == 1    \* calls of the counter-mode transform per programmed IV

(* ---------------------------------------------------------------------- *)
(* Program constants                                                       *)
(* ---------------------------------------------------------------------- *)
SRTP_SALT_LEN == 14
SRTP_AES_128_KEY_LEN == 16
SRTP_AES_192_KEY_LEN == 24
SRTP_AES_256_KEY_LEN == 32
SRTP_AES_ICM_128_KEY_LEN_WSALT == 30
SRTP_AES_ICM_192_KEY_LEN_WSALT == 38
SRTP_AES_ICM_256_KEY_LEN_WSALT == 46
AES_BLOCK_SIZE == 16
MAX_KEY_BYTES == 32

\* the null pointer: a value different from every object
NULL == [null |-> TRUE]

srtp_err_status_ok == "srtp_err_status_ok"
srtp_err_status_fail == "srtp_err_status_fail"
srtp_err_status_bad_param == "srtp_err_status_bad_param"
srtp_err_status_alloc_fail == "srtp_err_status_alloc_fail"
srtp_err_status_init_fail == "srtp_err_status_init_fail"
srtp_err_status_cipher_fail == "srtp_err_status_cipher_fail"
srtp_err_status_buffer_small == "srtp_err_status_buffer_small"

Engines == {1, 2}

(* ---------------------------------------------------------------------- *)
(* Bytes and 128-bit blocks                                                *)
(* ---------------------------------------------------------------------- *)
Min(a, b) == IF a < b THEN a ELSE b

RECURSIVE XorBits(_, _, _)
XorBits(a, b, n) ==
    IF n = 0 THEN 0
    ELSE (((a % 2) + (b % 2)) % 2) + 2 * XorBits(a \div 2, b \div 2, n - 1)

\* the exclusive or of two octets, tabulated once
XorTable == [a \in 0..255 |-> [b \in 0..255 |-> XorBits(a, b, 8)]]

ByteXor(a, b) == XorTable[a][b]

Fill(n, b) == [i \in 1..n |-> b]

\* octet-wise exclusive or of two byte strings of the same length
xorbuf(x, y) == [i \in 1..Len(x) |-> ByteXor(x[i], y[i])]

v128_zero == Fill(16, 0)

v128_xor(a, b) == [i \in 1..16 |-> ByteXor(a[i], b[i])]

v128_copy_octet_string(s) == [i \in 1..16 |-> s[i]]

\* memcpy(dst, src + from, n): the first n bytes of dst are replaced
memcpy(dst, src, from, n) ==
    [i \in 1..Len(dst) |-> IF i <= n THEN src[from + i] ELSE dst[i]]

\* dst with its byte at offset k (element k + 1) set to b
SetByte(dst, k, b) == [dst EXCEPT ![k + 1] = b]

(* ---------------------------------------------------------------------- *)
(* The wolfSSL AES primitive used through ctx (wolfcrypt/aes.h).           *)
(* An Aes object is [keyed, key, iv, reg, tmp, left]: iv is the starting   *)
(* block it was last programmed with, reg the running counter block, tmp   *)
(* the last keystream block, left the number of unused keystream bytes at  *)
(* the end of tmp.                                                         *)
(* ---------------------------------------------------------------------- *)
\* a position-weighted digest of the first n octets of s
RECURSIVE Digest(_, _)
Digest(s, n) == IF n = 0 THEN 0 ELSE (s[n] * (2 * n + 1) + Digest(s, n - 1)) % 256

\* the block cipher E(k, block): a fixed deterministic function of the key
\* octets, the key length and all 16 octets of the block
wc_AesEncrypt(key, blk) ==
    LET kd == Digest(key, Len(key)) + Len(key)
        bd == Digest(blk, 16)
    IN  [j \in 1..AES_BLOCK_SIZE |->
            (kd * (2 * j + 1) + bd * (j + 3) + 99 * j) % 256]

\* big-endian increment of the 128-bit counter block, modulo 2^128
RECURSIVE IncrementAesCounter(_, _)
IncrementAesCounter(reg, i) ==
    IF i = 0 THEN reg
    ELSE IF reg[i] = 255 THEN IncrementAesCounter([reg EXCEPT ![i] = 0], i - 1)
    ELSE [reg EXCEPT ![i] = reg[i] + 1]

\* wc_AesInit: a context without key schedule
wc_AesInit ==
    [keyed |-> FALSE, key |-> <<>>, iv |-> v128_zero, reg |-> v128_zero,
     tmp |-> v128_zero, left |-> 0]

\* wc_AesSetKey(aes, key, len, iv, AES_ENCRYPTION): err < 0 for a null
\* context, an unsupported key length or a rejection by the primitive
\* (reject); otherwise the key schedule and the starting block are set
wc_AesSetKey(aes, key, len, iv, reject) ==
    IF aes = NULL \/ reject
          \/ len \notin {SRTP_AES_128_KEY_LEN, SRTP_AES_192_KEY_LEN,
                         SRTP_AES_256_KEY_LEN}
    THEN [err |-> -1, aes |-> aes]
    ELSE [err |-> 0,
          aes |-> [keyed |-> TRUE, key |-> SubSeq(key, 1, len), iv |-> iv,
                   reg |-> iv, tmp |-> v128_zero, left |-> 0]]

\* the block loop of wc_AesCtrEncrypt over the input left after the unused
\* keystream bytes were consumed
RECURSIVE CtrBlocks(_, _)
CtrBlocks(aes, in) ==
    IF Len(in) >= AES_BLOCK_SIZE
    THEN LET ks == wc_AesEncrypt(aes.key, aes.reg)
             rest == CtrBlocks(
                 [aes EXCEPT !.reg = IncrementAesCounter(aes.reg, 16),
                             !.left = 0],
                 SubSeq(in, AES_BLOCK_SIZE + 1, Len(in)))
         IN  [aes |-> rest.aes,
              out |-> xorbuf(SubSeq(in, 1, AES_BLOCK_SIZE), ks) \o rest.out]
    ELSE IF Len(in) > 0
    THEN LET ks == wc_AesEncrypt(aes.key, aes.reg)
         IN  [aes |-> [aes EXCEPT !.reg = IncrementAesCounter(aes.reg, 16),
                                  !.tmp = ks,
                                  !.left = AES_BLOCK_SIZE - Len(in)],
              out |-> xorbuf(in, ks)]
    ELSE [aes |-> aes, out |-> <<>>]

\* wc_AesCtrEncrypt(aes, out, in, sz): out holds the bytes written.  The
\* unused keystream bytes of tmp are consumed first; a block encryption
\* fails (err < 0) without key schedule or when the primitive reports an
\* error (reject)
wc_AesCtrEncrypt(aes, in, reject) ==
    IF aes = NULL THEN [err |-> -1, aes |-> aes, out |-> <<>>]
    ELSE
    LET processed == Min(aes.left, Len(in))
        used == SubSeq(aes.tmp, AES_BLOCK_SIZE - aes.left + 1,
                       AES_BLOCK_SIZE - aes.left + processed)
        out1 == xorbuf(SubSeq(in, 1, processed), used)
        aes1 == [aes EXCEPT !.left = aes.left - processed]
        rem  == SubSeq(in, processed + 1, Len(in))
    IN  IF Len(rem) = 0 THEN [err |-> 0, aes |-> aes1, out |-> out1]
        ELSE IF reject \/ ~aes.keyed
        THEN [err |-> -1, aes |-> aes1, out |-> out1]
        ELSE LET r == CtrBlocks(aes1, rem)
             IN  [err |-> 0, aes |-> r.aes, out |-> out1 \o r.out]

(* ---------------------------------------------------------------------- *)
(* Inputs                                                                  *)
(* ---------------------------------------------------------------------- *)
\* key_len arguments of alloc: the three valid lengths and invalid ones
KeyLens == {0, 16, 29, 30, 31, 38, 46, 47}

\* byte patterns of memory returned by srtp_crypto_alloc before it is written
FreshBytes == {0, 170}

\* key material number kid of key_len bytes: the key followed by the salt
KeyBuf(kid, key_len) == [i \in 1..key_len |-> (kid * 83 + i * 29) % 256]

\* the key materials used
KeyIds == {1, 2}

\* the nonce of packet index i for a fixed SSRC: SSRC in octets 4..7, the
\* 48-bit index in octets 8..13, octets 14..15 left for the block counter
IndexNonce(i) ==
    [k \in 1..16 |-> IF k = 8 THEN 7
                     ELSE IF k = 13 THEN i \div 256
                     ELSE IF k = 14 THEN i % 256
                     ELSE 0]

Nonces == {IndexNonce(i) : i \in 0..MaxIndex}

Directions == {"srtp_direction_encrypt", "srtp_direction_decrypt"}

SrcLens == {0, 16, 21}

Plaintext(n) == [i \in 1..n |-> (i * 7 + 65) % 256]

Plaintexts == {Plaintext(n) : n \in SrcLens}

\* contents of the caller's destination buffer of cap bytes before a call
DstFresh(cap) == Fill(cap, 238)

(* ---------------------------------------------------------------------- *)
(* State                                                                   *)
(* ---------------------------------------------------------------------- *)
VARIABLES
    c,        \* c[e]: the cipher handle *c, NULL or [algorithm, type, key_len]
    icm,      \* icm[e]: the srtp_aes_icm_ctx_t behind c->state, or NULL
    dst,      \* dst[e]: the destination buffer of the encrypt call in ret[e]
    dst_len,  \* dst_len[e]: *dst_len after the encrypt call in ret[e]
    ret,      \* ret[e]: the last call on e, its arguments and returned status
    freed,    \* freed[e]: the blocks the call in ret[e] gave to
              \*           srtp_crypto_free, in order
    heap,     \* heap[e]: for each kind of block, how many were obtained from
              \*          srtp_crypto_alloc for e and not yet freed
    g,        \* g[e]: history of the calls on e since its allocation
    rt,       \* the last encryption of a plaintext at the start of a keystream
    thr       \* thr[t]: the call thread t is in, its arguments and its local
              \*         nonce, when threads run their calls side by side

vars == <<c, icm, dst, dst_len, ret, freed, heap, g, rt, thr>>

NoCall ==
    [op |-> "none", status |-> srtp_err_status_ok, key_len |-> 0,
     nalloc |-> 0, kid |-> 0, written |-> 0, iv |-> v128_zero, dir |-> "none", src |-> <<>>,
     cap |-> 0, dst_len_null |-> FALSE, ext_called |-> FALSE, ext_err |-> FALSE,
     alloc_err |-> FALSE, start |-> FALSE]

\* inited: context_init returned ok; kid: its key material; ivcalls: set_iv
\* was called after it; nonce: the nonce of the last of these calls; ivset:
\* that call returned ok; renonce: it followed a set_iv call with another
\* nonce; nenc: calls of the counter-mode transform since the context was
\* last programmed; everinit: some context_init returned ok; ready: after
\* that some set_iv returned ok
NoHistory ==
    [inited |-> FALSE, kid |-> 0, ivcalls |-> FALSE, nonce |-> v128_zero,
     ivset |-> FALSE, renonce |-> FALSE, nenc |-> 0, everinit |-> FALSE,
     ready |-> FALSE]

\* a thread outside any call
NoFrame ==
    [pc |-> "idle", iv |-> v128_zero, dir |-> "none", nonce |-> v128_zero]

NoRoundTrip ==
    [valid |-> FALSE, kid |-> 0, key_len |-> 0, nonce |-> v128_zero,
     src |-> <<>>, out |-> <<>>]

\* no block is held
NoBlocks == [cipher |-> 0, icm |-> 0, aes |-> 0]

\* srtp_crypto_alloc returned a block of kind b
Acquire(h, b) == [h EXCEPT ![b] = @ + 1]

\* srtp_crypto_free was called on the blocks of released, one call each
Release(h, released) ==
    [b \in DOMAIN h |->
        h[b] - Cardinality({i \in 1..Len(released) : released[i].block = b})]

\* outside an encrypt call there is no destination buffer
NoBuffer(e) ==
    /\ dst' = [dst EXCEPT ![e] = <<>>]
    /\ dst_len' = [dst_len EXCEPT ![e] = 0]

Init ==
    /\ c = [e \in Engines |-> NULL]
    /\ icm = [e \in Engines |-> NULL]
    /\ dst = [e \in Engines |-> <<>>]
    /\ dst_len = [e \in Engines |-> 0]
    /\ ret = [e \in Engines |-> NoCall]
    /\ freed = [e \in Engines |-> <<>>]
    /\ heap = [e \in Engines |-> NoBlocks]
    /\ g = [e \in Engines |-> NoHistory]
    /\ rt = NoRoundTrip
    /\ thr = [t \in Engines |-> NoFrame]

(* ---------------------------------------------------------------------- *)
(* srtp_aes_icm_wolfssl_alloc                                              *)
(* ---------------------------------------------------------------------- *)
\* the key_len check at the head of alloc
alloc_key_len_valid(key_len) ==
    ~(key_len /= SRTP_AES_ICM_128_KEY_LEN_WSALT
        /\ key_len /= SRTP_AES_ICM_192_KEY_LEN_WSALT
        /\ key_len /= SRTP_AES_ICM_256_KEY_LEN_WSALT)

\* alloc_params with the 192-bit case carrying the key size of the 128-bit
\* case
alloc_params_copied_case(key_len, uninit) ==
    CASE key_len = SRTP_AES_ICM_128_KEY_LEN_WSALT ->
           [algorithm |-> "SRTP_AES_ICM_128", type |-> "srtp_aes_icm_128",
            key_size |-> SRTP_AES_128_KEY_LEN]
      [] key_len = SRTP_AES_ICM_192_KEY_LEN_WSALT ->
           [algorithm |-> "SRTP_AES_ICM_192", type |-> "srtp_aes_icm_192",
            key_size |-> SRTP_AES_128_KEY_LEN]
      [] key_len = SRTP_AES_ICM_256_KEY_LEN_WSALT ->
           [algorithm |-> "SRTP_AES_ICM_256", type |-> "srtp_aes_icm_256",
            key_size |-> SRTP_AES_256_KEY_LEN]
      [] OTHER ->
           [algorithm |-> "uninitialized", type |-> "uninitialized",
            key_size |-> uninit]

\* the switch that sets up the cipher parameters; uninit is what the fresh
\* memory holds when no case matches
alloc_params(key_len, uninit) ==
    CASE key_len = SRTP_AES_ICM_128_KEY_LEN_WSALT ->
           [algorithm |-> "SRTP_AES_ICM_128", type |-> "srtp_aes_icm_128",
            key_size |-> SRTP_AES_128_KEY_LEN]
      [] key_len = SRTP_AES_ICM_192_KEY_LEN_WSALT ->
           [algorithm |-> "SRTP_AES_ICM_192", type |-> "srtp_aes_icm_192",
            key_size |-> SRTP_AES_192_KEY_LEN]
      [] key_len = SRTP_AES_ICM_256_KEY_LEN_WSALT ->
           [algorithm |-> "SRTP_AES_ICM_256", type |-> "srtp_aes_icm_256",
            key_size |-> SRTP_AES_256_KEY_LEN]
      [] OTHER ->
           [algorithm |-> "uninitialized", type |-> "uninitialized",
            key_size |-> uninit]

\* nalloc: how many srtp_crypto_alloc calls succeed; fb: the byte pattern of
\* the memory they return
srtp_aes_icm_wolfssl_alloc(e, key_len, nalloc, fb) ==
    /\ c[e] = NULL
    /\ NoBuffer(e)
    /\ IF ~alloc_key_len_valid(key_len)
       THEN /\ ret' = [ret EXCEPT ![e] =
                 [NoCall EXCEPT !.op = "alloc", !.key_len = key_len,
                                !.nalloc = nalloc,
                                !.status = srtp_err_status_bad_param]]
            /\ freed' = [freed EXCEPT ![e] = <<>>]
            /\ UNCHANGED <<c, icm, heap, g>>
       ELSE IF nalloc = 0
       THEN /\ ret' = [ret EXCEPT ![e] =
                 [NoCall EXCEPT !.op = "alloc", !.key_len = key_len,
                                !.nalloc = nalloc,
                                !.status = srtp_err_status_alloc_fail]]
            /\ c' = [c EXCEPT ![e] = NULL]
            /\ freed' = [freed EXCEPT ![e] = <<>>]
            /\ UNCHANGED <<icm, heap, g>>
       ELSE IF nalloc = 1
       THEN /\ ret' = [ret EXCEPT ![e] =
                 [NoCall EXCEPT !.op = "alloc", !.key_len = key_len,
                                !.nalloc = nalloc,
                                !.status = srtp_err_status_alloc_fail]]
            /\ c' = [c EXCEPT ![e] = NULL]
            /\ freed' = [freed EXCEPT ![e] =
                            <<[block |-> "cipher", mem |-> NULL]>>]
            /\ heap' = [heap EXCEPT ![e] =
                   Release(Acquire(@, "cipher"),
                           <<[block |-> "cipher", mem |-> NULL]>>)]
            /\ UNCHANGED <<icm, g>>
       ELSE LET p == alloc_params(key_len, fb)
            IN  /\ c' = [c EXCEPT ![e] =
                       [algorithm |-> p.algorithm, type |-> p.type,
                        key_len |-> key_len]]
                /\ icm' = [icm EXCEPT ![e] =
                       [key |-> Fill(MAX_KEY_BYTES, fb),
                        key_size |-> p.key_size,
                        offset |-> Fill(16, fb),
                        counter |-> Fill(16, fb),
                        ctx |-> NULL]]
                /\ freed' = [freed EXCEPT ![e] = <<>>]
                /\ heap' = [heap EXCEPT ![e] =
                       Acquire(Acquire(@, "cipher"), "icm")]
                /\ g' = [g EXCEPT ![e] = NoHistory]
                /\ ret' = [ret EXCEPT ![e] =
                       [NoCall EXCEPT !.op = "alloc", !.key_len = key_len,
                                !.nalloc = nalloc,
                                      !.status = srtp_err_status_ok]]

(* ---------------------------------------------------------------------- *)
(* srtp_aes_icm_wolfssl_dealloc                                            *)
(* ---------------------------------------------------------------------- *)
\* octet_string_set_to_zero(ctx, sizeof(srtp_aes_icm_ctx_t))
octet_string_set_to_zero(s) ==
    [key |-> Fill(Len(s.key), 0), key_size |-> 0,
     offset |-> Fill(Len(s.offset), 0), counter |-> Fill(Len(s.counter), 0),
     ctx |-> NULL]

\* dealloc_release with the engine state set to zero only when there is an
\* Aes context
dealloc_release_zero_with_ctx(h, s) ==
    (IF s /= NULL
     THEN (IF s.ctx /= NULL
           THEN <<[block |-> "aes", mem |-> NULL]>>
           ELSE <<>>)
          \o <<[block |-> "icm",
                mem |-> IF s.ctx /= NULL THEN octet_string_set_to_zero(s)
                        ELSE s]>>
     ELSE <<>>)
    \o <<[block |-> "cipher", mem |-> NULL]>>

\* dealloc_release without the release of the Aes context
dealloc_release_ctx_leaked(h, s) ==
    (IF s /= NULL
     THEN <<[block |-> "icm", mem |-> octet_string_set_to_zero(s)]>>
     ELSE <<>>)
    \o <<[block |-> "cipher", mem |-> NULL]>>

\* the blocks dealloc hands to srtp_crypto_free, in order: the Aes context
\* if there is one, the engine state with its contents when it is freed,
\* the cipher handle
dealloc_release(h, s) ==
    (IF s /= NULL
     THEN (IF s.ctx /= NULL
           THEN <<[block |-> "aes", mem |-> NULL]>>
           ELSE <<>>)
          \o <<[block |-> "icm", mem |-> octet_string_set_to_zero(s)]>>
     ELSE <<>>)
    \o <<[block |-> "cipher", mem |-> NULL]>>

\* dealloc_status without the check of the handle
dealloc_status_unchecked(h) == srtp_err_status_ok

\* the status dealloc returns for handle h
dealloc_status(h) ==
    IF h = NULL THEN srtp_err_status_bad_param ELSE srtp_err_status_ok

srtp_aes_icm_wolfssl_dealloc(e) ==
    /\ NoBuffer(e)
    /\ ret' = [ret EXCEPT ![e] =
           [NoCall EXCEPT !.op = "dealloc", !.status = dealloc_status(c[e])]]
    /\ IF c[e] = NULL
       THEN /\ freed' = [freed EXCEPT ![e] = <<>>]
            /\ UNCHANGED <<c, icm, heap, g>>
       ELSE /\ freed' = [freed EXCEPT ![e] = dealloc_release(c[e], icm[e])]
            /\ heap' = [heap EXCEPT ![e] =
                   Release(@, dealloc_release(c[e], icm[e]))]
            /\ g' = [g EXCEPT ![e] = NoHistory]
            /\ c' = [c EXCEPT ![e] = NULL]
            /\ icm' = [icm EXCEPT ![e] = NULL]

(* ---------------------------------------------------------------------- *)
(* srtp_aes_icm_wolfssl_context_init                                       *)
(* ---------------------------------------------------------------------- *)
v128_set_to_zero(x) == [i \in 1..Len(x) |-> 0]

\* context_init_salt without the clearing of the block and of its last two
\* octets: the salt is copied over the previous value
context_init_salt_uncleared(blk, key, key_size) ==
    memcpy(blk, key, key_size, SRTP_SALT_LEN)

\* the value context_init gives to offset and to counter, blk being the
\* block's previous value: zero, then the salt that follows the key, then
\* the last two octets forced to zero
context_init_salt(blk, key, key_size) ==
    LET z == v128_set_to_zero(blk)
        m == memcpy(z, key, key_size, SRTP_SALT_LEN)
    IN  SetByte(SetByte(m, SRTP_SALT_LEN, 0), SRTP_SALT_LEN + 1, 0)

\* context_init_key_size_ok with the case of the 192-bit key missing from
\* the switch
context_init_key_size_ok_no_192(key_size) ==
    /\ key_size \in {SRTP_AES_256_KEY_LEN, SRTP_AES_128_KEY_LEN}
    /\ ~(key_size > MAX_KEY_BYTES)

\* the key_size checks that precede the copy of the key
context_init_key_size_ok(key_size) ==
    /\ key_size \in {SRTP_AES_256_KEY_LEN, SRTP_AES_192_KEY_LEN,
                     SRTP_AES_128_KEY_LEN}
    /\ ~(key_size > MAX_KEY_BYTES)

\* context_init_creates with the test of c->ctx missing: a context is
\* created on every call
context_init_creates_always(s) == TRUE

\* whether context_init creates the Aes context: c->ctx == NULL
context_init_creates(s) == s.ctx = NULL

\* context_init_fail_state with c->ctx left pointing to the freed block
context_init_fail_state_dangling(s) == [s EXCEPT !.ctx = wc_AesInit]

\* the engine state when wc_AesInit failed: the block was freed and c->ctx
\* is null again
context_init_fail_state(s) == [s EXCEPT !.ctx = NULL]

\* the engine state s after the stores to counter and offset
context_init_salted(s, key) ==
    [s EXCEPT !.counter = context_init_salt(s.counter, key, s.key_size),
              !.offset = context_init_salt(s.offset, key, s.key_size)]

\* context_init_keyed storing the length of the copied key as well
context_init_keyed_resized(s, key) ==
    [s EXCEPT !.key = memcpy(s.key, key, 0, s.key_size),
              !.key_size = SRTP_AES_128_KEY_LEN]

\* context_init_keyed copying the octets of the shortest key only
context_init_keyed_truncated(s, key) ==
    [s EXCEPT !.key = memcpy(s.key, key, 0, SRTP_AES_128_KEY_LEN)]

\* the engine state s after the key was stored:
\* memcpy(c->key, key, c->key_size)
context_init_keyed(s, key) ==
    [s EXCEPT !.key = memcpy(s.key, key, 0, s.key_size)]

\* kid: the key material passed; alloc_ok, init_ok: whether srtp_crypto_alloc
\* and wc_AesInit succeed when the context has to be created
srtp_aes_icm_wolfssl_context_init(e, kid, alloc_ok, init_ok) ==
    /\ c[e] /= NULL
    /\ NoBuffer(e)
    /\ UNCHANGED c
    /\ LET s == icm[e]
           key == KeyBuf(kid, c[e].key_len)
           call == [NoCall EXCEPT !.op = "context_init", !.kid = kid]
           creates == context_init_creates(s)
       IN
       IF creates /\ ~alloc_ok
       THEN /\ ret' = [ret EXCEPT ![e] =
                 [call EXCEPT !.status = srtp_err_status_alloc_fail,
                              !.alloc_err = TRUE]]
            /\ freed' = [freed EXCEPT ![e] = <<>>]
            /\ icm' = [icm EXCEPT ![e].ctx = NULL]
            /\ UNCHANGED <<heap, g>>
       ELSE IF creates /\ ~init_ok
       THEN /\ ret' = [ret EXCEPT ![e] =
                 [call EXCEPT !.status = srtp_err_status_init_fail,
                              !.ext_called = TRUE, !.ext_err = TRUE]]
            /\ freed' = [freed EXCEPT ![e] =
                   <<[block |-> "aes", mem |-> NULL]>>]
            /\ heap' = [heap EXCEPT ![e] =
                   Release(Acquire(@, "aes"),
                           <<[block |-> "aes", mem |-> NULL]>>)]
            /\ icm' = [icm EXCEPT ![e] = context_init_fail_state(s)]
            /\ UNCHANGED g
       ELSE LET s0 == IF creates THEN [s EXCEPT !.ctx = wc_AesInit] ELSE s
                s1 == context_init_salted(s0, key)
            IN  /\ freed' = [freed EXCEPT ![e] = <<>>]
                /\ heap' = [heap EXCEPT ![e] =
                       IF creates THEN Acquire(@, "aes") ELSE @]
                /\ IF ~context_init_key_size_ok(s.key_size)
                   THEN /\ icm' = [icm EXCEPT ![e] = s1]
                        /\ g' = [g EXCEPT ![e] =
                             [NoHistory EXCEPT !.nenc = g[e].nenc,
                                               !.everinit = g[e].everinit,
                                               !.ready = g[e].ready]]
                        /\ ret' = [ret EXCEPT ![e] =
                             [call EXCEPT
                                !.status = srtp_err_status_bad_param,
                                !.ext_called = creates]]
                   ELSE /\ icm' = [icm EXCEPT ![e] =
                             context_init_keyed(s1, key)]
                        /\ g' = [g EXCEPT ![e] =
                             [NoHistory EXCEPT !.inited = TRUE, !.kid = kid,
                                               !.nenc = g[e].nenc,
                                               !.everinit = TRUE,
                                               !.ready = g[e].ready]]
                        /\ ret' = [ret EXCEPT ![e] =
                             [call EXCEPT !.status = srtp_err_status_ok,
                                          !.ext_called = creates]]

(* ---------------------------------------------------------------------- *)
(* srtp_aes_icm_wolfssl_set_iv                                             *)
(* ---------------------------------------------------------------------- *)
\* set_iv_counter with the nonce folded into the current counter instead of
\* the offset
set_iv_counter_accumulating(s, iv, dir) ==
    LET nonce == v128_copy_octet_string(iv)
    IN  v128_xor(s.counter, nonce)

\* set_iv_counter with only the first 8 octets of iv taken as the nonce
set_iv_counter_short_nonce(s, iv, dir) ==
    LET nonce == [i \in 1..16 |-> IF i <= 8 THEN iv[i] ELSE 0]
    IN  v128_xor(s.offset, nonce)

\* the counter set_iv computes for engine state s from iv; dir is the
\* direction argument
set_iv_counter(s, iv, dir) ==
    LET nonce == v128_copy_octet_string(iv)
    IN  v128_xor(s.offset, nonce)

\* set_iv_status with the sign of the test reversed
set_iv_status_positive_only(err) ==
    IF err > 0 THEN srtp_err_status_fail ELSE srtp_err_status_ok

\* set_iv_status with the result of wc_AesSetKey ignored
set_iv_status_ignored(err) == srtp_err_status_ok

\* the status set_iv returns for the result err of wc_AesSetKey
set_iv_status(err) ==
    IF err < 0 THEN srtp_err_status_fail ELSE srtp_err_status_ok

\* reject: the primitive rejects the key/IV combination
srtp_aes_icm_wolfssl_set_iv(e, iv, dir, reject) ==
    /\ c[e] /= NULL
    /\ NoBuffer(e)
    /\ freed' = [freed EXCEPT ![e] = <<>>]
    /\ UNCHANGED <<c, heap>>
    /\ LET s == icm[e]
           counter == set_iv_counter(s, iv, dir)
           r == wc_AesSetKey(s.ctx, s.key, s.key_size, counter, reject)
           status == set_iv_status(r.err)
       IN  /\ icm' = [icm EXCEPT ![e] =
                  [s EXCEPT !.counter = counter, !.ctx = r.aes]]
           /\ ret' = [ret EXCEPT ![e] =
                  [NoCall EXCEPT !.op = "set_iv", !.iv = iv, !.dir = dir,
                                 !.status = status, !.ext_called = TRUE,
                                 !.ext_err = r.err < 0]]
           /\ g' = [g EXCEPT ![e] =
                  [@ EXCEPT
                     !.ivcalls = g[e].inited,
                     !.nonce = iv,
                     !.ivset = g[e].inited /\ status = srtp_err_status_ok,
                     !.renonce = g[e].ivcalls /\ iv /= g[e].nonce,
                     !.nenc = IF r.err < 0 THEN @ ELSE 0,
                     !.ready = @ \/ (g[e].everinit
                                      /\ status = srtp_err_status_ok)]]

(* ---------------------------------------------------------------------- *)
(* srtp_aes_icm_wolfssl_encrypt                                            *)
(* ---------------------------------------------------------------------- *)
\* the capacity check off by one: a buffer one octet short passes
encrypt_buffer_small_off_by_one(cap, src_len) == cap + 1 < src_len

\* the capacity check: *dst_len < src_len
encrypt_buffer_small(cap, src_len) == cap < src_len

\* *dst_len left as it was on success
encrypt_dst_len_not_updated(cap, src_len) == cap

\* the value stored in *dst_len on success
encrypt_dst_len(cap, src_len) == src_len

\* the input of the transform one octet short
encrypt_input_short(src, src_len) ==
    SubSeq(src, 1, IF src_len > 0 THEN src_len - 1 ELSE 0)

\* what encrypt passes to wc_AesCtrEncrypt as the input of src_len octets
encrypt_input(src, src_len) == SubSeq(src, 1, src_len)

\* encrypt_status with the result of wc_AesCtrEncrypt ignored
encrypt_status_ignored(err) == srtp_err_status_ok

\* the status encrypt returns for the result err of wc_AesCtrEncrypt
encrypt_status(err) ==
    IF err < 0 THEN srtp_err_status_cipher_fail ELSE srtp_err_status_ok

\* encrypt_state with the engine following the block counter of the
\* primitive in its counter field
encrypt_state_tracks_counter(s, aes) ==
    [s EXCEPT !.ctx = aes,
              !.counter = IF aes = NULL THEN @ ELSE aes.reg]

\* the engine state s after wc_AesCtrEncrypt(c->ctx, ...) left the Aes
\* context as aes
encrypt_state(s, aes) == [s EXCEPT !.ctx = aes]

\* src: the input buffer; cap: the value of *dst_len on entry, the size of
\* dst; dst_len_null: dst_len is a null pointer; reject: the primitive
\* reports an error
srtp_aes_icm_wolfssl_encrypt(e, src, cap, dst_len_null, reject) ==
    /\ c[e] /= NULL
    /\ g[e].nenc < MaxEncrypts
    /\ freed' = [freed EXCEPT ![e] = <<>>]
    /\ UNCHANGED <<c, heap>>
    /\ LET s == icm[e]
           src_len == Len(src)
           call == [NoCall EXCEPT !.op = "encrypt", !.src = src, !.cap = cap,
                                  !.dst_len_null = dst_len_null]
       IN
       IF dst_len_null
       THEN /\ ret' = [ret EXCEPT ![e] =
                 [call EXCEPT !.status = srtp_err_status_bad_param]]
            /\ dst' = [dst EXCEPT ![e] = DstFresh(cap)]
            /\ dst_len' = [dst_len EXCEPT ![e] = cap]
            /\ UNCHANGED <<icm, g>>
       ELSE IF encrypt_buffer_small(cap, src_len)
       THEN /\ ret' = [ret EXCEPT ![e] =
                 [call EXCEPT !.status = srtp_err_status_buffer_small]]
            /\ dst' = [dst EXCEPT ![e] = DstFresh(cap)]
            /\ dst_len' = [dst_len EXCEPT ![e] = cap]
            /\ UNCHANGED <<icm, g>>
       ELSE LET r == wc_AesCtrEncrypt(s.ctx, encrypt_input(src, src_len),
                                      reject)
                out == r.out \o SubSeq(DstFresh(cap), Len(r.out) + 1, cap)
                start == g[e].ivset /\ g[e].nenc = 0 /\ r.err >= 0
                status == encrypt_status(r.err)
            IN  /\ icm' = [icm EXCEPT ![e] = encrypt_state(s, r.aes)]
                /\ dst' = [dst EXCEPT ![e] = out]
                /\ g' = [g EXCEPT ![e].nenc = @ + 1]
                /\ IF status /= srtp_err_status_ok
                   THEN /\ ret' = [ret EXCEPT ![e] =
                             [call EXCEPT
                                !.status = status,
                                !.ext_called = TRUE, !.ext_err = TRUE,
                                !.written = Len(r.out)]]
                        /\ dst_len' = [dst_len EXCEPT ![e] = cap]
                   ELSE /\ ret' = [ret EXCEPT ![e] =
                             [call EXCEPT !.status = status,
                                          !.ext_called = TRUE,
                                          !.ext_err = r.err < 0,
                                          !.written = Len(r.out),
                                          !.start = start]]
                        /\ dst_len' = [dst_len EXCEPT ![e] =
                                          encrypt_dst_len(cap, src_len)]

(* ---------------------------------------------------------------------- *)
(* The callers                                                             *)
(* ---------------------------------------------------------------------- *)
\* the function tables of the three variants: entry name -> function
srtp_aes_icm_128 ==
    [alloc |-> "srtp_aes_icm_wolfssl_alloc",
     dealloc |-> "srtp_aes_icm_wolfssl_dealloc",
     init |-> "srtp_aes_icm_wolfssl_context_init",
     set_aad |-> "0",
     encrypt |-> "srtp_aes_icm_wolfssl_encrypt",
     decrypt |-> "srtp_aes_icm_wolfssl_encrypt",
     set_iv |-> "srtp_aes_icm_wolfssl_set_iv",
     id |-> "SRTP_AES_ICM_128"]

srtp_aes_icm_192 ==
    [alloc |-> "srtp_aes_icm_wolfssl_alloc",
     dealloc |-> "srtp_aes_icm_wolfssl_dealloc",
     init |-> "srtp_aes_icm_wolfssl_context_init",
     set_aad |-> "0",
     encrypt |-> "srtp_aes_icm_wolfssl_encrypt",
     decrypt |-> "srtp_aes_icm_wolfssl_encrypt",
     set_iv |-> "srtp_aes_icm_wolfssl_set_iv",
     id |-> "SRTP_AES_ICM_192"]

srtp_aes_icm_256 ==
    [alloc |-> "srtp_aes_icm_wolfssl_alloc",
     dealloc |-> "srtp_aes_icm_wolfssl_dealloc",
     init |-> "srtp_aes_icm_wolfssl_context_init",
     set_aad |-> "0",
     encrypt |-> "srtp_aes_icm_wolfssl_encrypt",
     decrypt |-> "srtp_aes_icm_wolfssl_encrypt",
     set_iv |-> "srtp_aes_icm_wolfssl_set_iv",
     id |-> "SRTP_AES_ICM_256"]

\* the table c->type points to
Descriptor(type) ==
    CASE type = "srtp_aes_icm_128" -> srtp_aes_icm_128
      [] type = "srtp_aes_icm_192" -> srtp_aes_icm_192
      [] type = "srtp_aes_icm_256" -> srtp_aes_icm_256

\* the engines the sequential specification operates
Sequential == {1}

\* capacities tried for an input of n bytes: too small, exact, larger
Capacities(n) == {k \in {n - 1, n, n + 2} : k >= 0}

Alloc ==
    \E e \in Sequential, key_len \in KeyLens, nalloc \in 0..2,
       fb \in FreshBytes :
        srtp_aes_icm_wolfssl_alloc(e, key_len, nalloc, fb) /\ UNCHANGED <<rt, thr>>

Dealloc ==
    \E e \in Sequential : srtp_aes_icm_wolfssl_dealloc(e) /\ UNCHANGED <<rt, thr>>

ContextInit ==
    \E e \in Sequential, kid \in KeyIds, alloc_ok \in BOOLEAN,
       init_ok \in BOOLEAN :
        /\ srtp_aes_icm_wolfssl_context_init(e, kid, alloc_ok, init_ok)
        /\ UNCHANGED <<rt, thr>>

SetIv ==
    \E e \in Sequential, iv \in Nonces, dir \in Directions,
       reject \in BOOLEAN :
        srtp_aes_icm_wolfssl_set_iv(e, iv, dir, reject) /\ UNCHANGED <<rt, thr>>

\* a call through the encrypt entry of the engine's table
Encrypt ==
    \E e \in Sequential, src \in Plaintexts, dst_len_null \in BOOLEAN,
       reject \in BOOLEAN :
        \E cap \in Capacities(Len(src)) :
            /\ c[e] /= NULL
            /\ Descriptor(c[e].type).encrypt = "srtp_aes_icm_wolfssl_encrypt"
            /\ srtp_aes_icm_wolfssl_encrypt(e, src, cap, dst_len_null, reject)
            /\ UNCHANGED <<rt, thr>>

Next == Alloc \/ Dealloc \/ ContextInit \/ SetIv \/ Encrypt

Spec == Init /\ [][Next]_vars

(* ---------------------------------------------------------------------- *)
(* Round trips: the same calls without injected failures, where the        *)
(* ciphertext of the last plaintext encrypted at the start of a keystream  *)
(* can be fed back as input                                                *)
(* ---------------------------------------------------------------------- *)
ValidKeyLens ==
    {SRTP_AES_ICM_128_KEY_LEN_WSALT, SRTP_AES_ICM_192_KEY_LEN_WSALT,
     SRTP_AES_ICM_256_KEY_LEN_WSALT}

AllocRT ==
    \E e \in Sequential, key_len \in ValidKeyLens, fb \in FreshBytes :
        srtp_aes_icm_wolfssl_alloc(e, key_len, 2, fb) /\ UNCHANGED <<rt, thr>>

DeallocRT ==
    \E e \in Sequential :
        c[e] /= NULL /\ srtp_aes_icm_wolfssl_dealloc(e) /\ UNCHANGED <<rt, thr>>

ContextInitRT ==
    \E e \in Sequential, kid \in KeyIds :
        /\ srtp_aes_icm_wolfssl_context_init(e, kid, TRUE, TRUE)
        /\ UNCHANGED <<rt, thr>>

SetIvRT ==
    \E e \in Sequential, iv \in Nonces, dir \in Directions :
        srtp_aes_icm_wolfssl_set_iv(e, iv, dir, FALSE) /\ UNCHANGED <<rt, thr>>

EncryptRT ==
    \E e \in Sequential,
       src \in Plaintexts \cup (IF rt.valid THEN {rt.out} ELSE {}),
       entry \in {"encrypt", "decrypt"} :
        /\ c[e] /= NULL
        /\ Descriptor(c[e].type)[entry] = "srtp_aes_icm_wolfssl_encrypt"
        /\ srtp_aes_icm_wolfssl_encrypt(e, src, Len(src), FALSE, FALSE)
        /\ rt' = IF ret'[e].start /\ src \in Plaintexts
                 THEN [valid |-> TRUE, kid |-> g[e].kid,
                       key_len |-> c[e].key_len, nonce |-> g[e].nonce,
                       src |-> src,
                       out |-> SubSeq(dst'[e], 1, dst_len'[e])]
                 ELSE rt
        /\ UNCHANGED thr

NextRT == AllocRT \/ DeallocRT \/ ContextInitRT \/ SetIvRT \/ EncryptRT

SpecRT == Init /\ [][NextRT]_vars

(* ---------------------------------------------------------------------- *)
(* Two threads, thread t operating engine t.  A call is one step, except   *)
(* set_iv, which is two: the copy of iv into the local nonce, then the     *)
(* rest of the function, so that the other thread can run in between       *)
(* ---------------------------------------------------------------------- *)
Threads == Engines

\* nonce_storage with the local declared static: one object for all calls
nonce_storage_static(t) == 1

\* where the local nonce of a set_iv call of thread t is: automatic storage,
\* in the frame of the call
nonce_storage(t) == t

\* the nonces the threads use
ParNonces == {IndexNonce(0), IndexNonce(1)}

AllocPar(t) ==
    /\ thr[t].pc = "idle"
    /\ srtp_aes_icm_wolfssl_alloc(t, SRTP_AES_ICM_128_KEY_LEN_WSALT, 2, 170)
    /\ UNCHANGED <<rt, thr>>

DeallocPar(t) ==
    /\ thr[t].pc = "idle"
    /\ c[t] /= NULL
    /\ srtp_aes_icm_wolfssl_dealloc(t)
    /\ UNCHANGED <<rt, thr>>

ContextInitPar(t) ==
    /\ thr[t].pc = "idle"
    /\ \E init_ok \in BOOLEAN :
           srtp_aes_icm_wolfssl_context_init(t, t, TRUE, init_ok)
    /\ UNCHANGED <<rt, thr>>

\* set_iv up to v128_copy_octet_string(&nonce, iv)
SetIvCopyPar(t) ==
    /\ thr[t].pc = "idle"
    /\ c[t] /= NULL
    /\ \E iv \in ParNonces :
           thr' = [thr EXCEPT
                      ![t] = [@ EXCEPT !.pc = "set_iv", !.iv = iv,
                                       !.dir = "srtp_direction_encrypt"],
                      ![nonce_storage(t)].nonce = v128_copy_octet_string(iv)]
    /\ UNCHANGED <<c, icm, dst, dst_len, ret, freed, heap, g, rt>>

\* set_iv from v128_xor(&c->counter, &c->offset, &nonce) to its return
SetIvPar(t) ==
    /\ thr[t].pc = "set_iv"
    /\ \E reject \in BOOLEAN :
           srtp_aes_icm_wolfssl_set_iv(t, thr[nonce_storage(t)].nonce,
                                       thr[t].dir, reject)
    /\ thr' = [thr EXCEPT ![t] = NoFrame]
    /\ UNCHANGED rt

EncryptPar(t) ==
    /\ thr[t].pc = "idle"
    /\ srtp_aes_icm_wolfssl_encrypt(t, Plaintext(21), 21, FALSE, FALSE)
    /\ UNCHANGED <<rt, thr>>

\* a step of thread t
ThreadStep(t) ==
    \/ AllocPar(t)
    \/ DeallocPar(t)
    \/ ContextInitPar(t)
    \/ SetIvCopyPar(t)
    \/ SetIvPar(t)
    \/ EncryptPar(t)

NextPar == \E t \in Threads : ThreadStep(t)

SpecPar == Init /\ [][NextPar]_vars

(* ---------------------------------------------------------------------- *)
(* Properties                                                              *)
(* ---------------------------------------------------------------------- *)
\* a step of the call op on engine e
StepOf(e, op) ==
    /\ ret'[e].op = op
    /\ <<c[e], icm[e], dst[e], dst_len[e], ret[e], freed[e], heap[e], g[e]>>
         /= <<c'[e], icm'[e], dst'[e], dst_len'[e], ret'[e], freed'[e],
              heap'[e], g'[e]>>

\* what the three valid lengths are bound to
Variant(key_len) ==
    IF key_len = 30 THEN <<"SRTP_AES_ICM_128", "srtp_aes_icm_128", 16>>
    ELSE IF key_len = 38 THEN <<"SRTP_AES_ICM_192", "srtp_aes_icm_192", 24>>
    ELSE <<"SRTP_AES_ICM_256", "srtp_aes_icm_256", 32>>

\* C1: alloc returns bad_param exactly for a key_len other than 30, 38, 46;
\* for 30, 38, 46 with both allocations succeeding it returns ok with the
\* handle bound to the matching algorithm identifier and descriptor, key_size
\* 16, 24, 32 and a null block-cipher context
C1_AllocContract ==
    \A e \in Engines :
        ret[e].op = "alloc" =>
            /\ ret[e].key_len \notin {30, 38, 46}
                 <=> ret[e].status = srtp_err_status_bad_param
            /\ (ret[e].key_len \in {30, 38, 46} /\ ret[e].nalloc = 2) =>
                 /\ ret[e].status = srtp_err_status_ok
                 /\ c[e] /= NULL
                 /\ c[e].algorithm = Variant(ret[e].key_len)[1]
                 /\ c[e].type = Variant(ret[e].key_len)[2]
                 /\ Descriptor(c[e].type).id = c[e].algorithm
                 /\ c[e].key_len = ret[e].key_len
                 /\ icm[e].key_size = Variant(ret[e].key_len)[3]
                 /\ icm[e].ctx = NULL

C1_Witness ==
    /\ ret[1].op = "alloc"
    /\ ret[1].key_len = 38
    /\ ret[1].status = srtp_err_status_ok
    /\ c[1].algorithm = "SRTP_AES_ICM_192"
    /\ icm[1].key_size = 24

\* C2: after set_iv on an initialized engine the counter is offset XOR nonce
\* whatever the counter was before, however many set_iv and encrypt calls
\* preceded and whatever the direction; when the call returns ok the
\* programmed starting block is that counter
C2_SetIvFunctional ==
    \A e \in Engines :
        (ret[e].op = "set_iv" /\ g[e].inited) =>
            /\ icm[e].counter = v128_xor(icm[e].offset, ret[e].iv)
            /\ ret[e].status = srtp_err_status_ok =>
                 /\ icm[e].ctx /= NULL
                 /\ icm[e].ctx.reg = v128_xor(icm[e].offset, ret[e].iv)

\* a set_iv for decryption that follows a set_iv with another nonce
C2_Witness ==
    /\ ret[1].op = "set_iv"
    /\ ret[1].dir = "srtp_direction_decrypt"
    /\ ret[1].status = srtp_err_status_ok
    /\ g[1].renonce
    /\ icm[1].counter = v128_xor(icm[1].offset, ret[1].iv)
    /\ icm[1].counter /= icm[1].offset

\* C3: a plaintext encrypted at the start of a keystream (context_init,
\* set_iv, encrypt) and its ciphertext given, through the encrypt or the
\* decrypt entry, to an engine initialized with the same key and salt and
\* set to the same nonce, comes back as the plaintext
C3_RoundTrip ==
    \A e \in Engines :
        ( /\ ret[e].op = "encrypt"
          /\ ret[e].status = srtp_err_status_ok
          /\ ret[e].start
          /\ rt.valid
          /\ ret[e].src = rt.out
          /\ g[e].kid = rt.kid
          /\ c[e].key_len = rt.key_len
          /\ g[e].nonce = rt.nonce )
        => SubSeq(dst[e], 1, dst_len[e]) = rt.src

\* the second leg of a round trip of 21 octets
C3_Witness ==
    /\ ret[1].op = "encrypt"
    /\ ret[1].status = srtp_err_status_ok
    /\ ret[1].start
    /\ rt.valid
    /\ Len(rt.src) = 21
    /\ rt.out /= rt.src
    /\ ret[1].src = rt.out
    /\ g[1].kid = rt.kid
    /\ c[1].key_len = rt.key_len
    /\ g[1].nonce = rt.nonce
    /\ dst[1] = rt.src

\* C4: once context_init has returned ok, octets 14 and 15 of offset are
\* zero until dealloc, and only context_init writes offset
C4_OffsetLowZero ==
    /\ [](\A e \in Engines :
            (g[e].inited /\ icm[e] /= NULL) =>
                icm[e].offset[15] = 0 /\ icm[e].offset[16] = 0)
    /\ [][\A e \in Engines :
            (icm[e] /= NULL /\ icm'[e] /= NULL
               /\ icm'[e].offset /= icm[e].offset)
            => ret'[e].op = "context_init"]_vars

\* an engine whose memory was not zero when allocated, after context_init
\* and later calls
C4_Witness ==
    /\ g[1].inited
    /\ ret[1].op = "encrypt"
    /\ icm[1].key[32] = 170
    /\ icm[1].offset[14] /= 0
    /\ icm[1].offset[15] = 0
    /\ icm[1].offset[16] = 0

\* C5: on an initialized engine a set_iv with a nonce other than that of the
\* set_iv before it gives another counter
C5_DistinctCounters ==
    [][\A e \in Engines :
        (StepOf(e, "set_iv") /\ g[e].ivcalls /\ ret'[e].iv /= g[e].nonce)
        => icm'[e].counter /= icm[e].counter]_vars

C5_Witness ==
    /\ ret[1].op = "set_iv"
    /\ g[1].inited
    /\ g[1].renonce
    /\ ret[1].iv = IndexNonce(1)

\* C6: encrypt with *dst_len < src_len returns buffer_small, leaves dst and
\* *dst_len as they were and leaves the engine and its block-cipher context
\* untouched
C6_BufferTooSmall ==
    /\ [](\A e \in Engines :
            (ret[e].op = "encrypt" /\ ~ret[e].dst_len_null
               /\ ret[e].cap < Len(ret[e].src)) =>
                /\ ret[e].status = srtp_err_status_buffer_small
                /\ dst[e] = DstFresh(ret[e].cap)
                /\ dst_len[e] = ret[e].cap
                /\ ~ret[e].ext_called)
    /\ [][\A e \in Engines :
            (StepOf(e, "encrypt") /\ ~ret'[e].dst_len_null
               /\ ret'[e].cap < Len(ret'[e].src))
            => icm'[e] = icm[e]]_vars

\* a call with a buffer one octet short on an engine ready to encrypt
C6_Witness ==
    /\ ret[1].op = "encrypt"
    /\ ret[1].status = srtp_err_status_buffer_small
    /\ Len(ret[1].src) = 21
    /\ ret[1].cap = 20
    /\ g[1].ivset
    /\ dst[1] = DstFresh(20)

\* C7: when encrypt returns ok, src_len octets were written at the start of
\* dst, the rest of dst is as it was and *dst_len is src_len; when it
\* returns an error *dst_len is as it was
C7_EncryptLength ==
    \A e \in Engines :
        (ret[e].op = "encrypt" /\ ~ret[e].dst_len_null) =>
            IF ret[e].status = srtp_err_status_ok
            THEN /\ ret[e].cap >= Len(ret[e].src)
                 /\ ret[e].written = Len(ret[e].src)
                 /\ dst_len[e] = Len(ret[e].src)
                 /\ Len(dst[e]) = ret[e].cap
                 /\ \A i \in Len(ret[e].src) + 1 .. ret[e].cap :
                        dst[e][i] = DstFresh(ret[e].cap)[i]
            ELSE dst_len[e] = ret[e].cap

\* 21 octets encrypted into a buffer of 23
C7_Witness ==
    /\ ret[1].op = "encrypt"
    /\ ret[1].status = srtp_err_status_ok
    /\ Len(ret[1].src) = 21
    /\ ret[1].cap = 23
    /\ dst_len[1] = 21
    /\ SubSeq(dst[1], 1, 21) /= SubSeq(DstFresh(23), 1, 21)

C9_ZeroizedOnRelease ==
    \A e \in Engines :
        (ret[e].op = "dealloc" /\ ret[e].status = srtp_err_status_ok) =>
            /\ Cardinality({i \in 1..Len(freed[e]) :
                               freed[e][i].block = "icm"}) = 1
            /\ \A i \in 1..Len(freed[e]) :
                   freed[e][i].block = "icm" =>
                       /\ freed[e][i].mem.key = Fill(32, 0)
                       /\ freed[e][i].mem.offset = Fill(16, 0)
                       /\ freed[e][i].mem.counter = Fill(16, 0)
                       /\ freed[e][i].mem.key_size = 0

\* dealloc of an engine whose block-cipher context was never created
C9_Witness ==
    /\ ret[1].op = "dealloc"
    /\ ret[1].status = srtp_err_status_ok
    /\ Len(freed[1]) = 2
    /\ freed[1][1].block = "icm"
    /\ freed[1][1].mem.key = Fill(32, 0)
    /\ freed[1][1].mem.key_size = 0

\* C10: dealloc returns bad_param exactly when the handle is null, and ok for
\* every other handle
C10_DeallocStatus ==
    [][\A e \in Engines :
        StepOf(e, "dealloc") =>
            /\ ret'[e].status = srtp_err_status_bad_param <=> c[e] = NULL
            /\ c[e] /= NULL => ret'[e].status = srtp_err_status_ok]_vars

\* dealloc of an engine that had its block-cipher context
C10_Witness ==
    /\ ret[1].op = "dealloc"
    /\ ret[1].status = srtp_err_status_ok
    /\ Len(freed[1]) = 3
    /\ c[1] = NULL

\* C11: an engine never holds more than one live Aes context, and holds one
\* exactly when c->ctx is not null; context_init obtains a context only
\* when c->ctx is null, and a context_init on an engine that has its
\* context leaves that context in place and obtains nothing
C11_OneContext ==
    /\ [](\A e \in Engines :
            /\ heap[e].aes \in {0, 1}
            /\ heap[e].aes = 1 <=> (icm[e] /= NULL /\ icm[e].ctx /= NULL))
    /\ [][\A e \in Engines :
            StepOf(e, "context_init") =>
                /\ heap'[e].aes > heap[e].aes => icm[e].ctx = NULL
                /\ icm[e].ctx /= NULL =>
                     /\ heap'[e] = heap[e]
                     /\ freed'[e] = <<>>
                     /\ ~ret'[e].ext_called
                     /\ icm'[e].ctx = icm[e].ctx]_vars

\* a context_init with another key on an engine already programmed: the
\* context it finds is kept
C11_Witness ==
    /\ ret[1].op = "context_init"
    /\ ret[1].status = srtp_err_status_ok
    /\ ~ret[1].ext_called
    /\ ret[1].kid = 2
    /\ heap[1].aes = 1
    /\ icm[1].ctx.keyed
    /\ icm[1].ctx.key /= SubSeq(icm[1].key, 1, icm[1].key_size)

\* the kinds of the blocks given to srtp_crypto_free by the last call on e,
\* in order
FreedBlocks(e) == [i \in 1..Len(freed[e]) |-> freed[e][i].block]

\* C12: every live block is the one a pointer of the engine designates and
\* there is at most one of each kind (no leak, no dangling pointer, no
\* block freed twice); dealloc frees the Aes context if there is one, then
\* the engine state, then the cipher handle, and leaves no block; an alloc
\* that fails leaves no block, having freed the handle when the second
\* allocation failed; a context_init that fails to create the context
\* leaves no Aes block, having freed it when wc_AesInit failed
C12_ReleaseBalanced ==
    \A e \in Engines :
        /\ \A b \in DOMAIN heap[e] : heap[e][b] \in {0, 1}
        /\ heap[e].cipher = 1 <=> c[e] /= NULL
        /\ heap[e].icm = 1 <=> icm[e] /= NULL
        /\ heap[e].aes = 1 <=> (icm[e] /= NULL /\ icm[e].ctx /= NULL)
        /\ (ret[e].op = "dealloc" /\ ret[e].status = srtp_err_status_ok) =>
             /\ heap[e] = NoBlocks
             /\ FreedBlocks(e) \in {<<"aes", "icm", "cipher">>,
                                    <<"icm", "cipher">>}
        /\ (ret[e].op = "alloc" /\ ret[e].status /= srtp_err_status_ok) =>
             /\ heap[e] = NoBlocks
             /\ c[e] = NULL
             /\ FreedBlocks(e) =
                  (IF ret[e].status = srtp_err_status_alloc_fail
                      /\ ret[e].nalloc = 1
                   THEN <<"cipher">> ELSE <<>>)
        /\ (ret[e].op = "context_init"
              /\ ret[e].status \in {srtp_err_status_alloc_fail,
                                    srtp_err_status_init_fail}) =>
             /\ heap[e].aes = 0
             /\ icm[e].ctx = NULL
             /\ FreedBlocks(e) =
                  (IF ret[e].ext_err THEN <<"aes">> ELSE <<>>)

\* dealloc of an engine that had been initialized and programmed: three
\* blocks released in order, none left
C12_Witness ==
    /\ ret[1].op = "dealloc"
    /\ ret[1].status = srtp_err_status_ok
    /\ FreedBlocks(1) = <<"aes", "icm", "cipher">>
    /\ heap[1] = NoBlocks
    /\ icm[1] = NULL

\* all there is of engine e
EngineState(e) ==
    <<c[e], icm[e], dst[e], dst_len[e], ret[e], freed[e], heap[e], g[e]>>

\* the call thread t completes, made on engine t with the arguments t
\* passed, as one step of a caller that runs alone
AloneCall(t) ==
    \/ srtp_aes_icm_wolfssl_alloc(t, SRTP_AES_ICM_128_KEY_LEN_WSALT, 2, 170)
    \/ srtp_aes_icm_wolfssl_dealloc(t)
    \/ \E init_ok \in BOOLEAN :
          srtp_aes_icm_wolfssl_context_init(t, t, TRUE, init_ok)
    \/ \E reject \in BOOLEAN :
          /\ thr[t].pc = "set_iv"
          /\ srtp_aes_icm_wolfssl_set_iv(t, thr[t].iv, thr[t].dir, reject)
    \/ srtp_aes_icm_wolfssl_encrypt(t, Plaintext(21), 21, FALSE, FALSE)

\* C13: with two threads each operating its own engine, a step of thread t
\* changes nothing of the other engine nor of the other thread, and the
\* call it completes leaves engine t, the returned status and the output
\* as the same call with the same arguments does when made in one piece by
\* a caller running alone
C13_Isolation ==
    [][\A t \in Threads :
        ThreadStep(t) =>
            /\ \A e \in Engines \ {t} : EngineState(e)' = EngineState(e)
            /\ \A u \in Threads \ {t} : thr'[u] = thr[u]
            /\ thr'[t].pc = "idle" => AloneCall(t)]_vars

\* both threads are inside set_iv at once, with different nonces, each on
\* an initialized engine, and engine 1 has encrypted before
C13_Witness ==
    /\ \A t \in Threads :
          /\ thr[t].pc = "set_iv"
          /\ thr[t].nonce = thr[t].iv
          /\ g[t].inited
    /\ thr[1].iv /= thr[2].iv
    /\ ret[1].op = "encrypt"
    /\ ret[1].status = srtp_err_status_ok
    /\ icm[1].key /= icm[2].key

\* C14: a failure of the creation of the Aes context, of wc_AesInit, of
\* wc_AesSetKey or of wc_AesCtrEncrypt is never answered by ok: context_init
\* returns alloc_fail or init_fail, set_iv an error, encrypt cipher_fail
C14_NoSwallowedError ==
    \A e \in Engines :
        /\ (ret[e].op = "context_init" /\ ret[e].alloc_err) =>
             ret[e].status = srtp_err_status_alloc_fail
        /\ (ret[e].op = "context_init" /\ ret[e].ext_err) =>
             ret[e].status = srtp_err_status_init_fail
        /\ (ret[e].op = "set_iv" /\ ret[e].ext_err) =>
             ret[e].status /= srtp_err_status_ok
        /\ (ret[e].op = "encrypt" /\ ret[e].ext_err) =>
             ret[e].status = srtp_err_status_cipher_fail

\* the transform fails on an engine that was ready to encrypt 21 octets
C14_Witness ==
    /\ ret[1].op = "encrypt"
    /\ ret[1].ext_called
    /\ ret[1].ext_err
    /\ ret[1].status = srtp_err_status_cipher_fail
    /\ g[1].ivset
    /\ Len(ret[1].src) = 21

\* C15: from alloc to dealloc key_size, the algorithm identifier and the
\* descriptor are those alloc bound to key_len, and no context_init, set_iv
\* or encrypt, whatever it returns, changes them
C15_KeySizeFixed ==
    /\ [](\A e \in Engines :
            c[e] /= NULL =>
                /\ icm[e].key_size = Variant(c[e].key_len)[3]
                /\ c[e].algorithm = Variant(c[e].key_len)[1]
                /\ c[e].type = Variant(c[e].key_len)[2])
    /\ [][\A e \in Engines :
            (StepOf(e, "context_init") \/ StepOf(e, "set_iv")
               \/ StepOf(e, "encrypt")) =>
                /\ icm'[e].key_size = icm[e].key_size
                /\ c'[e] = c[e]]_vars

\* a 256-bit engine after context_init, set_iv and a failed encrypt
C15_Witness ==
    /\ ret[1].op = "encrypt"
    /\ ret[1].status = srtp_err_status_cipher_fail
    /\ g[1].ivset
    /\ c[1].key_len = 46
    /\ icm[1].key_size = 32
    /\ c[1].algorithm = "SRTP_AES_ICM_256"

\* C16: encrypt leaves key, offset, counter and key_size of the engine as
\* they were whatever it returns, and counter changes only in context_init
\* and set_iv
C16_EncryptFrame ==
    [][\A e \in Engines :
        /\ StepOf(e, "encrypt") =>
             /\ icm'[e].key = icm[e].key
             /\ icm'[e].offset = icm[e].offset
             /\ icm'[e].counter = icm[e].counter
             /\ icm'[e].key_size = icm[e].key_size
        /\ (icm[e] /= NULL /\ icm'[e] /= NULL
              /\ icm'[e].counter /= icm[e].counter) =>
             ret'[e].op \in {"context_init", "set_iv"}]_vars

\* after 21 octets the block counter of the primitive has moved on while
\* the counter field is still offset XOR nonce
C16_Witness ==
    /\ ret[1].op = "encrypt"
    /\ ret[1].status = srtp_err_status_ok
    /\ Len(ret[1].src) = 21
    /\ g[1].ivset
    /\ icm[1].counter = v128_xor(icm[1].offset, g[1].nonce)
    /\ icm[1].ctx.iv = icm[1].counter
    /\ icm[1].ctx.reg /= icm[1].counter

\* C17: the key_size of an allocated engine is 16, 24 or 32 and fits the key
\* storage, and context_init never returns bad_param
C17_InitNeverBadParam ==
    \A e \in Engines :
        /\ icm[e] /= NULL =>
             /\ icm[e].key_size \in {16, 24, 32}
             /\ icm[e].key_size <= Len(icm[e].key)
        /\ ret[e].op = "context_init" =>
             ret[e].status /= srtp_err_status_bad_param

\* the first context_init of a 192-bit engine
C17_Witness ==
    /\ ret[1].op = "context_init"
    /\ ret[1].status = srtp_err_status_ok
    /\ ret[1].ext_called
    /\ c[1].key_len = 38
    /\ icm[1].key_size = 24
    /\ SubSeq(icm[1].key, 1, 24) = SubSeq(KeyBuf(ret[1].kid, 38), 1, 24)

\* the key passed to the last context_init that returned ok on e
GivenKey(e) == SubSeq(KeyBuf(g[e].kid, c[e].key_len), 1, icm[e].key_size)

\* C18 as stated: whenever encrypt returns ok, the key programmed in the Aes
\* context is the stored key, the one given to the last context_init that
\* returned ok, and the starting block programmed is the counter field
C18_ProgrammedMatchesStored ==
    \A e \in Engines :
        (ret[e].op = "encrypt" /\ ret[e].status = srtp_err_status_ok) =>
            /\ g[e].inited
            /\ icm[e].ctx.key = SubSeq(icm[e].key, 1, icm[e].key_size)
            /\ icm[e].ctx.key = GivenKey(e)
            /\ icm[e].ctx.iv = icm[e].counter

\* C18 amended: whenever encrypt returns ok and the last context_init or
\* set_iv call before it was a set_iv that returned ok, the key programmed
\* in the Aes context is the stored key, the one given to the last
\* context_init that returned ok, and the starting block programmed is the
\* counter field, offset XOR the nonce of that set_iv
C18_ProgrammedAfterSetIv ==
    \A e \in Engines :
        (ret[e].op = "encrypt" /\ ret[e].status = srtp_err_status_ok
           /\ g[e].ivset) =>
            /\ g[e].inited
            /\ icm[e].ctx.keyed
            /\ icm[e].ctx.key = SubSeq(icm[e].key, 1, icm[e].key_size)
            /\ icm[e].ctx.key = GivenKey(e)
            /\ icm[e].ctx.iv = icm[e].counter
            /\ icm[e].counter = v128_xor(icm[e].offset, g[e].nonce)

\* a 192-bit engine keyed a second time, programmed and used
C18_Witness ==
    /\ ret[1].op = "encrypt"
    /\ ret[1].status = srtp_err_status_ok
    /\ g[1].ivset
    /\ g[1].kid = 2
    /\ icm[1].key_size = 24
    /\ Len(ret[1].src) = 16
    /\ icm[1].ctx.key = GivenKey(1)

C20_UnchangedOnError ==
    [][\A e \in Engines :
        ((StepOf(e, "context_init") \/ StepOf(e, "set_iv")
            \/ StepOf(e, "encrypt"))
           /\ ret'[e].status /= srtp_err_status_ok) =>
            /\ icm'[e].key = icm[e].key
            /\ icm'[e].offset = icm[e].offset
            /\ icm'[e].counter = icm[e].counter
            /\ icm'[e].key_size = icm[e].key_size
            /\ (ret'[e].op = "context_init"
                  /\ (ret'[e].alloc_err \/ ret'[e].ext_err)) =>
                 icm'[e].ctx = NULL]_vars

\* C20 amended: a context_init or encrypt that returns an error leaves key,
\* offset, counter and key_size as they were, and a context_init that failed
\* to create the context leaves c->ctx null; a set_iv that returns an error
\* leaves key, offset and key_size as they were and counter set to offset
\* XOR nonce
C20_UnchangedButCounter ==
    [][\A e \in Engines :
        ((StepOf(e, "context_init") \/ StepOf(e, "set_iv")
            \/ StepOf(e, "encrypt"))
           /\ ret'[e].status /= srtp_err_status_ok) =>
            /\ icm'[e].key = icm[e].key
            /\ icm'[e].offset = icm[e].offset
            /\ icm'[e].key_size = icm[e].key_size
            /\ icm'[e].counter =
                 (IF ret'[e].op = "set_iv"
                  THEN v128_xor(icm[e].offset, ret'[e].iv)
                  ELSE icm[e].counter)
            /\ (ret'[e].op = "context_init"
                  /\ (ret'[e].alloc_err \/ ret'[e].ext_err)) =>
                 icm'[e].ctx = NULL]_vars

\* a set_iv rejected by the primitive on an initialized engine: the counter
\* field has moved to offset XOR nonce, the context keeps its old block
C20_Witness ==
    /\ ret[1].op = "set_iv"
    /\ ret[1].status = srtp_err_status_fail
    /\ g[1].inited
    /\ icm[1].ctx.keyed
    /\ icm[1].counter = v128_xor(icm[1].offset, ret[1].iv)
    /\ icm[1].ctx.iv /= icm[1].counter

====
